---- MODULE Spec2Model ----
(***************************************************************************)
(* Model of the worktree manager (manage_worktree.py): the layout          *)
(* classifier, branch-name sanitisation, the ignore-file update and the    *)
(* create / list / remove command-line flow.                               *)
(*                                                                         *)
(* Text is a sequence of one-character strings; a path is the text of      *)
(* str(Path), with "/" between its components.                             *)
(***************************************************************************)
EXTENDS Integers, Sequences, FiniteSets, TLC

VARIABLES
    parentName,         \* name of the directory that holds the repository root
    fs,                 \* paths that exist (directories)
    gitignore,          \* <root>/.gitignore: [exists, content]
    fs0,                \* history: fs when the invocation started
    gitignore0,         \* history: gitignore when the invocation started
    pc,                 \* position of the running invocation
    argv,               \* parsed command line of the invocation
    root,               \* create_worktree: root
    safe_branch,        \* create_worktree: safe_branch
    pattern_type,       \* create_worktree: pattern_type
    base_path,          \* create_worktree: base_path
    full_worktree_path, \* create_worktree: full_worktree_path
    markers,            \* marker files present in the new worktree
    events,             \* history: external commands, file writes and prints, in order
    exitCode,           \* exit status of the process (-1 until it ends)
    invocations,        \* history: the create invocations that ended, in order
    skill_files,        \* spawn_subagent: what is at each candidate SKILL.md
    gemini,             \* spawn_subagent: how the run of the subagent binary ended
    spawn_result,       \* spawn_subagent: the dict it returned
    log_file,           \* spawn_subagent: the log file [exists, content]
    activation_log,     \* record_activation: e2e_demo/skill-activation.log [exists, content]
    activation_log0,    \* the log before the invocations
    act_pc,             \* record_activation: position of each process
    act_read            \* record_activation: what each process read of the log

worktreeVars == <<parentName, fs, gitignore, fs0, gitignore0, pc, argv, root, safe_branch,
                  pattern_type, base_path, full_worktree_path, markers, events, exitCode>>
subagentVars == <<skill_files, gemini, spawn_result, log_file>>
activationVars == <<activation_log, activation_log0, act_pc, act_read>>
\* what the worktree manager's own steps leave alone
restVars == <<invocations, subagentVars, activationVars>>

vars == <<worktreeVars, restVars>>

-----------------------------------------------------------------------------
(* Bounds of the checked instances *)

\* longest run of newline characters put after a parent directory name
MaxNewlines == 2
\* longest branch name given to sanitize_branch_name
MaxBranchLen == 3
\* most lines in a sampled ignore file
MaxLines == 2
\* most marker files present in a new worktree
MaxMarkers == 2
\* calls of ensure_gitignore made in a row on one file
MaxCalls == 2

-----------------------------------------------------------------------------
(* Text *)

None == <<"None">>
Unset == <<"unset">>

NL == "\n"
Slash == "/"
Backslash == "\\"

DotWorktrees == <<".", "w", "o", "r", "k", "t", "r", "e", "e", "s">>
PlainWorktrees == <<"w", "o", "r", "k", "t", "r", "e", "e", "s">>

RECURSIVE Repeat(_, _)
Repeat(c, n) == IF n = 0 THEN <<>> ELSE <<c>> \o Repeat(c, n - 1)

\* s[i .. i+Len(t)-1] = t
OccursAt(s, t, i) ==
    /\ i >= 1
    /\ i + Len(t) - 1 <= Len(s)
    /\ \A k \in 1..Len(t) : s[i + k - 1] = t[k]

\* Python's `t in s`
Contains(s, t) == \E i \in 1..(Len(s) + 1) : OccursAt(s, t, i)

EndsWith(s, t) == Len(t) <= Len(s) /\ OccursAt(s, t, Len(s) - Len(t) + 1)

Lower(c) ==
    CASE c = "W" -> "w" [] c = "O" -> "o" [] c = "R" -> "r" [] c = "K" -> "k"
      [] c = "T" -> "t" [] c = "E" -> "e" [] c = "S" -> "s" [] c = "P" -> "p"
      [] OTHER -> c

LowerText(s) == [i \in 1..Len(s) |-> Lower(s[i])]

\* the lines of a text, as str.split("\n") gives them
RECURSIVE SplitLines(_)
SplitLines(s) ==
    IF \A i \in 1..Len(s) : s[i] # NL
    THEN <<s>>
    ELSE LET i == CHOOSE j \in 1..Len(s) : s[j] = NL /\ \A k \in 1..(j - 1) : s[k] # NL
         IN  <<SubSeq(s, 1, i - 1)>> \o SplitLines(SubSeq(s, i + 1, Len(s)))

HasLine(s, t) == \E i \in 1..Len(SplitLines(s)) : SplitLines(s)[i] = t

-----------------------------------------------------------------------------
(* Paths *)

LastSlash(p) == CHOOSE j \in 1..Len(p) : p[j] = Slash /\ \A k \in (j + 1)..Len(p) : p[k] # Slash

\* Path.name
PathName(p) == IF p = <<Slash>> THEN <<>> ELSE SubSeq(p, LastSlash(p) + 1, Len(p))

\* Path.parent
PathParent(p) ==
    IF p = <<Slash>> \/ LastSlash(p) = 1 THEN <<Slash>> ELSE SubSeq(p, 1, LastSlash(p) - 1)

\* Path / relative: an empty or "." component adds nothing
PathJoin(p, c) ==
    IF c = <<>> \/ c = <<".">> THEN p
    ELSE IF p = <<Slash>> THEN p \o c
    ELSE p \o <<Slash>> \o c

RootName == <<"r">>

\* the repository root that lives in a directory named n
RootIn(n) == PathJoin(PathJoin(<<Slash>>, n), RootName)

-----------------------------------------------------------------------------
(* The layout classifier *)

\* r'(-[Ww]orktrees|Worktrees)$': each alternative as the characters allowed at each place
DashAlternative ==
    <<{"-"}, {"W", "w"}, {"o"}, {"r"}, {"k"}, {"t"}, {"r"}, {"e"}, {"e"}, {"s"}>>
BareAlternative ==
    <<{"W"}, {"o"}, {"r"}, {"k"}, {"t"}, {"r"}, {"e"}, {"e"}, {"s"}>>

MatchAt(s, pat, i) ==
    /\ i + Len(pat) - 1 <= Len(s)
    /\ \A k \in 1..Len(pat) : s[i + k - 1] \in pat[k]

\* `$` without re.MULTILINE: the end of the text, or just before a newline that ends it
AtDollar(s, j) == j = Len(s) + 1 \/ (j = Len(s) /\ s[j] = NL)

\* bool(re.search(r'(-[Ww]orktrees|Worktrees)$', s))
ReSearchSuffix(s) ==
    \E i \in 1..(Len(s) + 1) : \E pat \in {DashAlternative, BareAlternative} :
        MatchAt(s, pat, i) /\ AtDollar(s, i + Len(pat))

\* the search with re.IGNORECASE
is_worktree_container_IgnoreCase(parent_path) ==
    LET n == LowerText(PathName(parent_path))
    IN  \E i \in 1..(Len(n) + 1) :
            OccursAt(n, PlainWorktrees, i) /\ AtDollar(n, i + Len(PlainWorktrees))

is_worktree_container(parent_path) == ReSearchSuffix(PathName(parent_path))

detect_worktree_pattern_PlainFirst(r, exists) ==
    IF is_worktree_container(PathParent(r))
    THEN [pattern |-> "sibling", base |-> PathParent(r)]
    ELSE IF PathJoin(r, PlainWorktrees) \in exists
    THEN [pattern |-> "nested", base |-> PlainWorktrees]
    ELSE [pattern |-> "nested", base |-> DotWorktrees]

detect_worktree_pattern(r, exists) ==
    IF is_worktree_container(PathParent(r))
    THEN [pattern |-> "sibling", base |-> PathParent(r)]
    ELSE IF PathJoin(r, DotWorktrees) \in exists
    THEN [pattern |-> "nested", base |-> DotWorktrees]
    ELSE IF PathJoin(r, PlainWorktrees) \in exists
    THEN [pattern |-> "nested", base |-> PlainWorktrees]
    ELSE [pattern |-> "nested", base |-> DotWorktrees]

-----------------------------------------------------------------------------
(* Inputs of the classifier *)

NamePrefixes == {<<>>, <<"P">>, <<"P", "-">>, <<"-">>}
NameFirstLetters == {"W", "w"}
NameRests ==
    { <<"o", "r", "k", "t", "r", "e", "e", "s">>,
      <<"O", "R", "K", "T", "R", "E", "E", "S">>,
      <<"o", "r", "k", "T", "r", "e", "e", "s">>,
      <<"o", "r", "k", "t", "r", "e", "e">> }
NameTails == {Repeat(NL, n) : n \in 0..MaxNewlines} \cup {<<"-", "p">>, <<"s">>}

ParentNames ==
    { p \o <<f>> \o r \o t :
        p \in NamePrefixes, f \in NameFirstLetters, r \in NameRests, t \in NameTails }
    \cup {<<>>, <<"m", "y", "-", "p">>}

\* the directories of a repository in a directory named n, with the nested ones in `nested`
Tree(n, nested) ==
    {<<Slash>>, PathParent(RootIn(n)), RootIn(n)} \cup {PathJoin(RootIn(n), d) : d \in nested}

NoFile == [exists |-> FALSE, content |-> <<>>]
NoArgv == [command |-> "None", branch |-> None, location |-> None,
           skip_setup |-> FALSE, skip_verify |-> FALSE, path |-> None, force |-> FALSE]

\* the subagent spawner and the activation logger before anything ran
NotRun == [outcome |-> "not run", returncode |-> -1, stdout |-> <<>>, stderr |-> <<>>]
NoResult == [success |-> FALSE, output |-> <<>>, error |-> <<>>, returned |-> FALSE]
Processes == {"p", "q"}

RestIdle ==
    /\ invocations = <<>>
    /\ skill_files = [i \in 1..3 |-> "absent"]
    /\ gemini = NotRun
    /\ spawn_result = NoResult
    /\ log_file = NoFile
    /\ activation_log = NoFile
    /\ activation_log0 = NoFile
    /\ act_pc = [p \in Processes |-> "done"]
    /\ act_read = [p \in Processes |-> <<>>]

Idle ==
    /\ gitignore = NoFile
    /\ gitignore0 = NoFile
    /\ argv = NoArgv
    /\ safe_branch = Unset
    /\ full_worktree_path = Unset
    /\ markers = {}
    /\ events = <<>>
    /\ exitCode = -1

InitDetect ==
    /\ parentName \in ParentNames
    /\ fs \in {Tree(parentName, nested) : nested \in SUBSET {DotWorktrees, PlainWorktrees}}
    /\ fs0 = fs
    /\ root = RootIn(parentName)
    /\ pattern_type = "unset"
    /\ base_path = Unset
    /\ pc = "detect"
    /\ Idle
    /\ RestIdle

Detect ==
    /\ pc = "detect"
    /\ LET d == detect_worktree_pattern(root, fs)
       IN  /\ pattern_type' = d.pattern
           /\ base_path' = d.base
    /\ pc' = "detected"
    /\ UNCHANGED <<parentName, fs, gitignore, fs0, gitignore0, argv, root, safe_branch,
                   full_worktree_path, markers, events, exitCode>>
    /\ UNCHANGED restVars

NextDetect == Detect

SpecDetect == InitDetect /\ [][NextDetect]_vars

DocumentedSuffixes ==
    { <<"-">> \o PlainWorktrees,
      <<"-", "W">> \o SubSeq(PlainWorktrees, 2, 9),
      <<"W">> \o SubSeq(PlainWorktrees, 2, 9) }

EndsWithDocumentedSuffix(n) == \E t \in DocumentedSuffixes : EndsWith(n, t)

\* C1: a parent name matching (-[Ww]orktrees|Worktrees)$ gives ('sibling', parent directory),
\* whatever nested directories exist; a parent name in which the suffix is not at the end,
\* or is absent, does not give 'sibling'.
C1_Claim ==
    pc = "detected" =>
        /\ ReSearchSuffix(parentName) =>
               pattern_type = "sibling" /\ base_path = PathParent(root)
        /\ ~EndsWithDocumentedSuffix(parentName) => pattern_type # "sibling"

\* C2: when the parent is no worktree container, '.worktrees' under the root wins over
\* 'worktrees', which wins over the default ('nested', '.worktrees').
C2_NestedPriority ==
    (pc = "detected" /\ ~is_worktree_container(PathParent(root))) =>
        /\ pattern_type = "nested"
        /\ base_path = IF PathJoin(root, DotWorktrees) \in fs THEN DotWorktrees
                       ELSE IF PathJoin(root, PlainWorktrees) \in fs THEN PlainWorktrees
                       ELSE DotWorktrees

C2_Witness ==
    /\ pc = "detected"
    /\ ~is_worktree_container(PathParent(root))
    /\ PathJoin(root, DotWorktrees) \in fs
    /\ PathJoin(root, PlainWorktrees) \in fs
    /\ pattern_type = "nested"
    /\ base_path = DotWorktrees

\* C3 as stated: a parent name ending in '-worktrees' or 'Worktrees' in any letter case
\* is classified 'sibling'.
C3_Claim ==
    (pc = "detected" /\ EndsWith(LowerText(parentName), PlainWorktrees)) =>
        pattern_type = "sibling"

\* C3 as amended: the match is case-sensitive but for the W after a dash. A parent name
\* ending exactly in '-worktrees', '-Worktrees' or 'Worktrees' is classified 'sibling';
\* a name ending in any other letter case of the suffix is classified 'nested'.
C3_CaseSensitiveSuffix ==
    pc = "detected" =>
        /\ EndsWithDocumentedSuffix(parentName) => pattern_type = "sibling"
        /\ (EndsWith(LowerText(parentName), PlainWorktrees)
                /\ ~EndsWithDocumentedSuffix(parentName)) => pattern_type = "nested"

C3_Witness ==
    /\ pc = "detected"
    /\ parentName = <<"P", "-", "W", "O", "R", "K", "T", "R", "E", "E", "S">>
    /\ pattern_type = "nested"

-----------------------------------------------------------------------------
(* Branch-name sanitisation *)

\* str.replace(old, new) for one-character old and new
Replace(s, old, new) == [i \in 1..Len(s) |-> IF s[i] = old THEN new ELSE s[i]]

sanitize_branch_name_SlashOnly(branch_name) == Replace(branch_name, Slash, "-")

sanitize_branch_name_Underscore(branch_name) ==
    Replace(Replace(branch_name, Slash, "_"), Backslash, "_")

sanitize_branch_name(branch_name) ==
    Replace(Replace(branch_name, Slash, "-"), Backslash, "-")

BranchAlphabet == {"a", "-", Slash, Backslash}

\* every text over BranchAlphabet of at most MaxBranchLen characters
BranchTexts == UNION {[1..n -> BranchAlphabet] : n \in 0..MaxBranchLen}

InitSanitize ==
    /\ parentName = <<"m", "y", "-", "p">>
    /\ fs = Tree(parentName, {})
    /\ fs0 = fs
    /\ root = RootIn(parentName)
    /\ pattern_type = "unset"
    /\ base_path = Unset
    /\ pc = "sanitize"
    /\ gitignore = NoFile
    /\ gitignore0 = NoFile
    /\ \E b \in BranchTexts : argv = [NoArgv EXCEPT !.command = "create", !.branch = b]
    /\ safe_branch = Unset
    /\ full_worktree_path = Unset
    /\ markers = {}
    /\ events = <<>>
    /\ exitCode = -1
    /\ RestIdle

Sanitize ==
    /\ pc = "sanitize"
    /\ safe_branch' = sanitize_branch_name(argv.branch)
    /\ pc' = "sanitized"
    /\ UNCHANGED <<parentName, fs, gitignore, fs0, gitignore0, argv, root, pattern_type,
                   base_path, full_worktree_path, markers, events, exitCode>>
    /\ UNCHANGED restVars

\* the result given to sanitize_branch_name once more
SanitizeAgain ==
    /\ pc = "sanitized"
    /\ argv' = [argv EXCEPT !.branch = safe_branch]
    /\ safe_branch' = sanitize_branch_name(safe_branch)
    /\ pc' = "resanitized"
    /\ UNCHANGED <<parentName, fs, gitignore, fs0, gitignore0, root, pattern_type,
                   base_path, full_worktree_path, markers, events, exitCode>>
    /\ UNCHANGED restVars

NextSanitize == Sanitize \/ SanitizeAgain

SpecSanitize == InitSanitize /\ [][NextSanitize]_vars

IsSeparator(c) == c = Slash \/ c = Backslash

\* C4: sanitize_branch_name returns, for every name, a text of the same length in which
\* every '/' and '\' is a '-' and every other character is kept, so it holds no separator
\* and a name without separators is unchanged; sanitising the result returns it unchanged.
C4_SanitizeTotalIdempotent ==
    /\ pc = "sanitized" =>
           /\ Len(safe_branch) = Len(argv.branch)
           /\ \A i \in 1..Len(argv.branch) :
                  safe_branch[i] = IF IsSeparator(argv.branch[i]) THEN "-" ELSE argv.branch[i]
           /\ \A i \in 1..Len(safe_branch) : ~IsSeparator(safe_branch[i])
           /\ (\A i \in 1..Len(argv.branch) : ~IsSeparator(argv.branch[i])) =>
                  safe_branch = argv.branch
    /\ pc = "resanitized" => safe_branch = argv.branch

C4_Witness ==
    /\ pc = "sanitized"
    /\ argv.branch = <<"a", Slash, Backslash>>
    /\ safe_branch = <<"a", "-", "-">>

-----------------------------------------------------------------------------
(* The ignore file *)

\* one entry of the history: a command with its outcome, a file write, a print
Ev(e, r) == [e |-> e, r |-> r]

Ran(e) == \E i \in 1..Len(events) : events[i].e = e
Outcome(e, r) == \E i \in 1..Len(events) : events[i] = Ev(e, r)
Count(e) == Cardinality({i \in 1..Len(events) : events[i].e = e})
\* some e comes before some f
Before(e, f) == \E i, j \in 1..Len(events) : i < j /\ events[i].e = e /\ events[j].e = f
\* the place of the last e (0: none)
LastOf(e) ==
    IF Ran(e) THEN CHOOSE i \in 1..Len(events) :
                       events[i].e = e /\ \A j \in (i + 1)..Len(events) : events[j].e # e
    ELSE 0
RanSince(e, i) == \E j \in (i + 1)..Len(events) : events[j].e = e

\* the outcomes of run_command for a command that exists: returns, or raises
\* CalledProcessError on a non-zero exit
GitOutcomes == {"ok", "fail"}

\* f"{directory}/"
IgnorePattern(directory) == directory \o <<Slash>>

\* f"\n# Git worktrees\n{pattern}\n"
AppendedText(directory) ==
    <<NL, "#", " ", "G", "i", "t", " ", "w", "o", "r", "k", "t", "r", "e", "e", "s", NL>>
    \o IgnorePattern(directory) \o <<NL>>

\* lines 103-106: the file exists and its text holds the pattern somewhere
AlreadyInGitignore(file, directory) ==
    /\ file.exists
    /\ \/ Contains(file.content, IgnorePattern(directory))
       \/ Contains(file.content, <<NL>> \o IgnorePattern(directory))

\* open(gitignore_path, 'a').write(text)
AppendToFile(file, text) == [exists |-> TRUE, content |-> file.content \o text]

\* ensure_gitignore up to its first external command; it returns to `ret`
ensure_gitignore(ret) ==
    /\ pc = "ensure_gitignore"
    /\ IF AlreadyInGitignore(gitignore, base_path)
       THEN /\ pc' = ret
            /\ events' = Append(events, Ev("ensure_gitignore returns", "True"))
            /\ UNCHANGED gitignore
       ELSE /\ gitignore' = AppendToFile(gitignore, AppendedText(base_path))
            /\ events' = events \o <<Ev("print Adding to .gitignore", "-"),
                                     Ev("append .gitignore", "-")>>
            /\ pc' = "git_add"
    /\ UNCHANGED <<parentName, fs, fs0, gitignore0, argv, root, safe_branch, pattern_type,
                   base_path, full_worktree_path, markers, exitCode>>
    /\ UNCHANGED restVars

\* git add .gitignore; on failure the commit is not run
ensure_gitignore_add(ret) ==
    /\ pc = "git_add"
    /\ \E r \in GitOutcomes :
        IF r = "ok"
        THEN /\ events' = Append(events, Ev("git add", r))
             /\ pc' = "git_commit"
        ELSE /\ events' = events \o <<Ev("git add", r), Ev("print Warning: Could not commit", "-"),
                                      Ev("ensure_gitignore returns", "True")>>
             /\ pc' = ret
    /\ UNCHANGED <<parentName, fs, gitignore, fs0, gitignore0, argv, root, safe_branch,
                   pattern_type, base_path, full_worktree_path, markers, exitCode>>
    /\ UNCHANGED restVars

\* git commit -m "chore: add <directory>/ to .gitignore"
ensure_gitignore_commit(ret) ==
    /\ pc = "git_commit"
    /\ \E r \in GitOutcomes :
        events' = events \o <<Ev("git commit", r),
                              IF r = "ok" THEN Ev("print Committed .gitignore update", "-")
                              ELSE Ev("print Warning: Could not commit", "-"),
                              Ev("ensure_gitignore returns", "True")>>
    /\ pc' = ret
    /\ UNCHANGED <<parentName, fs, gitignore, fs0, gitignore0, argv, root, safe_branch,
                   pattern_type, base_path, full_worktree_path, markers, exitCode>>
    /\ UNCHANGED restVars

\* ensure_gitignore(root, directory) called once more on the file as it now is
CallEnsureAgain ==
    /\ pc = "ensured"
    /\ Count("call ensure_gitignore") < MaxCalls
    /\ gitignore0' = gitignore
    /\ events' = Append(events, Ev("call ensure_gitignore", "-"))
    /\ pc' = "ensure_gitignore"
    /\ UNCHANGED <<parentName, fs, gitignore, fs0, argv, root, safe_branch, pattern_type,
                   base_path, full_worktree_path, markers, exitCode>>
    /\ UNCHANGED restVars

(* Sample ignore files: up to MaxLines lines, the last one with or without its newline *)

IgnoreLines ==
    { DotWorktrees \o <<Slash>>,
      PlainWorktrees \o <<Slash>>,
      <<"#", " ">> \o DotWorktrees \o <<Slash>>,
      <<"x">> \o PlainWorktrees \o <<Slash>>,
      DotWorktrees,
      <<"n", "/">> }

RECURSIVE JoinLines(_)
JoinLines(ls) == IF ls = <<>> THEN <<>> ELSE Head(ls) \o <<NL>> \o JoinLines(Tail(ls))

IgnoreFileTexts ==
    LET full == {JoinLines(ls) : ls \in UNION {[1..n -> IgnoreLines] : n \in 0..MaxLines}}
    IN  full \cup {SubSeq(t, 1, Len(t) - 1) : t \in full \ {<<>>}}

IgnoreFiles == {NoFile} \cup {[exists |-> TRUE, content |-> t] : t \in IgnoreFileTexts}

InitIgnore ==
    /\ parentName = <<"m", "y", "-", "p">>
    /\ fs = Tree(parentName, {})
    /\ fs0 = fs
    /\ root = RootIn(parentName)
    /\ pattern_type = "nested"
    /\ base_path \in {DotWorktrees, PlainWorktrees}
    /\ pc = "ensure_gitignore"
    /\ gitignore \in IgnoreFiles
    /\ gitignore0 = gitignore
    /\ argv = NoArgv
    /\ safe_branch = Unset
    /\ full_worktree_path = Unset
    /\ markers = {}
    /\ events = <<Ev("call ensure_gitignore", "-")>>
    /\ exitCode = -1
    /\ RestIdle

NextIgnore ==
    \/ ensure_gitignore("ensured")
    \/ ensure_gitignore_add("ensured")
    \/ ensure_gitignore_commit("ensured")
    \/ CallEnsureAgain

SpecIgnore == InitIgnore /\ [][NextIgnore]_vars

IsPrefix(s, t) == Len(s) <= Len(t) /\ SubSeq(t, 1, Len(s)) = s

\* C9: ensure_gitignore appends '<directory>/' exactly when the file does not already
\* hold that entry: when it returns the file has a line equal to '<directory>/'; with such
\* a line already there the file is unchanged and no git add/commit is run; a second call
\* appends nothing; what was in the file is kept.
C9_Claim ==
    pc = "ensured" =>
        LET had == gitignore0.exists /\ HasLine(gitignore0.content, IgnorePattern(base_path))
        IN  /\ HasLine(gitignore.content, IgnorePattern(base_path))
            /\ had => /\ gitignore = gitignore0
                      /\ ~RanSince("git add", LastOf("call ensure_gitignore"))
                      /\ ~RanSince("git commit", LastOf("call ensure_gitignore"))
            /\ ~had => gitignore.content = gitignore0.content \o AppendedText(base_path)
            /\ Count("call ensure_gitignore") >= 2 => gitignore = gitignore0
            /\ IsPrefix(gitignore0.content, gitignore.content)

-----------------------------------------------------------------------------
(* The command line: main, create_worktree, list_worktrees, remove_worktree *)

\* the outcomes of run_command for a tool looked up on PATH: it may also be missing, and
\* subprocess.run then raises FileNotFoundError, which no handler of the script catches
ToolOutcomes == {"ok", "fail", "notfound"}

SetupMarkers == {"package.json", "Cargo.toml", "requirements.txt", "pyproject.toml", "go.mod"}
VerifyMarkers == {"package.json", "Cargo.toml", "pytest.ini", "tests", "go.mod"}

\* the marker files a checked-out worktree may hold
MarkerSets == {m \in SUBSET (SetupMarkers \cup VerifyMarkers) : Cardinality(m) <= MaxMarkers}

Branches == {<<"a">>, <<"f", Slash, "a">>}
Locations == {None, <<>>, <<"w", "t">>}

\* a path with every directory above it
RECURSIVE WithParents(_)
WithParents(p) == IF p = <<Slash>> THEN {p} ELSE {p} \cup WithParents(PathParent(p))

CreateArgvs ==
    { [NoArgv EXCEPT !.command = "create", !.branch = b, !.location = l,
                     !.skip_setup = ss, !.skip_verify = sv] :
        b \in Branches, l \in Locations, ss \in BOOLEAN, sv \in BOOLEAN }

RemoveArgvs ==
    { [NoArgv EXCEPT !.command = "remove", !.path = DotWorktrees \o <<Slash, "a">>,
                     !.force = f] : f \in BOOLEAN }

\* the command lines tried: none, an unknown subcommand, create, list, remove
Argvs ==
    {NoArgv, [NoArgv EXCEPT !.command = "bogus"], [NoArgv EXCEPT !.command = "list"]}
    \cup CreateArgvs \cup RemoveArgvs

\* the directories under the root at the start: none, either or both worktree
\* directories, or .worktrees with a directory a already in it
MainNested ==
    SUBSET {DotWorktrees, PlainWorktrees}
    \cup {{DotWorktrees, DotWorktrees \o <<Slash, "a">>}}

MainIgnoreFiles ==
    { NoFile,
      [exists |-> TRUE, content |-> DotWorktrees \o <<Slash, NL>>],
      [exists |-> TRUE, content |-> <<"n", Slash, NL>>] }

Init ==
    /\ parentName \in {<<"m", "y", "-", "p">>, <<"P", "-">> \o PlainWorktrees}
    /\ fs \in {Tree(parentName, nested) : nested \in MainNested}
    /\ fs0 = fs
    /\ gitignore \in MainIgnoreFiles
    /\ gitignore0 = gitignore
    /\ pc = "start"
    /\ argv = NoArgv
    /\ root = Unset
    /\ safe_branch = Unset
    /\ pattern_type = "unset"
    /\ base_path = Unset
    /\ full_worktree_path = Unset
    /\ markers = {}
    /\ events = <<>>
    /\ exitCode = -1
    /\ RestIdle

\* the process ends with `status` after the history grew by `evs`
Exit(evs, status) ==
    /\ events' = events \o evs
    /\ exitCode' = status
    /\ pc' = "exited"

\* an exception no handler catches: the interpreter prints the traceback and exits 1
Uncaught(evs) == Exit(evs \o <<Ev("traceback", "-")>>, 1)

PrintHelpAndExit_Status0 == Exit(<<Ev("print help", "-")>>, 0)

\* lines 304-306
PrintHelpAndExit == Exit(<<Ev("print help", "-")>>, 1)

\* parser.parse_args() given a subcommand that is no choice: usage and error, status 2
ParserError == Exit(<<Ev("print usage error", "-")>>, 2)

\* main: parse the command line and dispatch
ParseAndDispatch(args) ==
    /\ pc = "start"
    /\ \E a \in args :
        /\ argv' = a
        /\ IF a.command = "bogus" THEN ParserError
           ELSE IF a.command \in {"create", "list", "remove"}
           THEN /\ pc' = "get_git_toplevel"
                /\ UNCHANGED <<events, exitCode>>
           ELSE PrintHelpAndExit
    /\ UNCHANGED <<parentName, fs, gitignore, fs0, gitignore0, root, safe_branch,
                   pattern_type, base_path, full_worktree_path, markers>>
    /\ UNCHANGED restVars

\* main, given any of the command lines tried
main ==
    /\ ParseAndDispatch(Argvs)

\* get_git_toplevel, the first statement of create, list and remove
get_git_toplevel ==
    /\ pc = "get_git_toplevel"
    /\ \E r \in GitOutcomes :
        IF r = "ok"
        THEN /\ root' = RootIn(parentName)
             /\ events' = Append(events, Ev("git rev-parse", r))
             /\ pc' = CASE argv.command = "create" -> "resolve"
                        [] argv.command = "list" -> "worktree_list"
                        [] OTHER -> "worktree_remove"
             /\ UNCHANGED exitCode
        ELSE /\ Uncaught(<<Ev("git rev-parse", r)>>)
             /\ UNCHANGED root
    /\ UNCHANGED <<parentName, fs, gitignore, fs0, gitignore0, argv, safe_branch,
                   pattern_type, base_path, full_worktree_path, markers>>
    /\ UNCHANGED restVars

\* `if location:` is false for None and for the empty text
Truthy(location) == location # None /\ location # <<>>

\* create_worktree putting every nested worktree under .worktrees
create_worktree_FixedBase ==
    /\ pc = "resolve"
    /\ safe_branch' = sanitize_branch_name(argv.branch)
    /\ IF Truthy(argv.location)
       THEN /\ full_worktree_path' = PathJoin(PathJoin(root, argv.location), safe_branch')
            /\ pattern_type' = "nested"
            /\ UNCHANGED <<base_path, events>>
            /\ pc' = "worktree_add"
       ELSE LET d == detect_worktree_pattern(root, fs)
            IN  /\ pattern_type' = d.pattern
                /\ base_path' = d.base
                /\ IF d.pattern = "sibling"
                   THEN /\ full_worktree_path' = PathJoin(d.base, safe_branch')
                        /\ events' = Append(events, Ev("print Using sibling pattern", "-"))
                        /\ pc' = "worktree_add"
                   ELSE /\ full_worktree_path' = PathJoin(PathJoin(root, DotWorktrees), safe_branch')
                        /\ UNCHANGED events
                        /\ pc' = "check_ignore"
    /\ UNCHANGED <<parentName, fs, gitignore, fs0, gitignore0, argv, root, markers, exitCode>>
    /\ UNCHANGED restVars

\* create_worktree, lines 194-211: the sanitised name, the layout, the target path
create_worktree ==
    /\ pc = "resolve"
    /\ safe_branch' = sanitize_branch_name(argv.branch)
    /\ IF Truthy(argv.location)
       THEN /\ full_worktree_path' = PathJoin(PathJoin(root, argv.location), safe_branch')
            /\ pattern_type' = "nested"
            /\ UNCHANGED <<base_path, events>>
            /\ pc' = "worktree_add"
       ELSE LET d == detect_worktree_pattern(root, fs)
            IN  /\ pattern_type' = d.pattern
                /\ base_path' = d.base
                /\ IF d.pattern = "sibling"
                   THEN /\ full_worktree_path' = PathJoin(d.base, safe_branch')
                        /\ events' = Append(events, Ev("print Using sibling pattern", "-"))
                        /\ pc' = "worktree_add"
                   ELSE /\ full_worktree_path' = PathJoin(PathJoin(root, d.base), safe_branch')
                        /\ UNCHANGED events
                        /\ pc' = "check_ignore"
    /\ UNCHANGED <<parentName, fs, gitignore, fs0, gitignore0, argv, root, markers, exitCode>>
    /\ UNCHANGED restVars

\* check_ignore with its two results swapped
check_ignore_Inverted ==
    /\ pc = "check_ignore"
    /\ \E r \in GitOutcomes :
        IF r = "fail"
        THEN /\ events' = Append(events, Ev("git check-ignore", r))
             /\ pc' = "worktree_add"
        ELSE /\ events' = events \o <<Ev("git check-ignore", r),
                                      Ev("print NOT ignored by git", "-"),
                                      Ev("call ensure_gitignore", "-")>>
             /\ pc' = "ensure_gitignore"
    /\ UNCHANGED <<parentName, fs, gitignore, fs0, gitignore0, argv, root, safe_branch,
                   pattern_type, base_path, full_worktree_path, markers, exitCode>>
    /\ UNCHANGED restVars

\* check_ignore(base_path, root): git check-ignore -q, True on exit status 0
check_ignore ==
    /\ pc = "check_ignore"
    /\ \E r \in GitOutcomes :
        IF r = "ok"
        THEN /\ events' = Append(events, Ev("git check-ignore", r))
             /\ pc' = "worktree_add"
        ELSE /\ events' = events \o <<Ev("git check-ignore", r),
                                      Ev("print NOT ignored by git", "-"),
                                      Ev("call ensure_gitignore", "-")>>
             /\ pc' = "ensure_gitignore"
    /\ UNCHANGED <<parentName, fs, gitignore, fs0, gitignore0, argv, root, safe_branch,
                   pattern_type, base_path, full_worktree_path, markers, exitCode>>
    /\ UNCHANGED restVars

\* where create goes once the worktree is added, and once the setup is through
AfterSetup == IF argv.skip_verify THEN "success" ELSE "verify"
AfterAdd == IF argv.skip_setup THEN AfterSetup ELSE "setup_node"

\* lines 220-231: git worktree add <path> -b <branch>; a failure ends the process
create_worktree_add ==
    /\ pc = "worktree_add"
    /\ LET warn == IF full_worktree_path \in fs
                   THEN <<Ev("print WARNING: Directory already exists", "-")>> ELSE <<>>
       IN  \E r \in GitOutcomes :
            IF r = "ok"
            THEN /\ events' = events \o warn \o <<Ev("git worktree add", r)>>
                 /\ fs' = fs \cup WithParents(full_worktree_path)
                 /\ markers' \in MarkerSets
                 /\ pc' = AfterAdd
                 /\ UNCHANGED exitCode
            ELSE /\ Exit(warn \o <<Ev("git worktree add", r),
                                   Ev("print Failed to create worktree", "-")>>, 1)
                 /\ UNCHANGED <<fs, markers>>
    /\ UNCHANGED <<parentName, gitignore, fs0, gitignore0, argv, root, safe_branch,
                   pattern_type, base_path, full_worktree_path>>
    /\ UNCHANGED restVars

\* one `if (cwd_path / marker).exists(): run_command(cmd)` of setup_project: nothing
\* catches the command's exception, so a failure ends the process
setup_project_step(here, next, marker, cmd, outcomes) ==
    /\ pc = here
    /\ IF marker \in markers
       THEN \E r \in outcomes :
               IF r = "ok"
               THEN /\ events' = Append(events, Ev(cmd, r))
                    /\ pc' = next
                    /\ UNCHANGED exitCode
               ELSE Uncaught(<<Ev(cmd, r)>>)
       ELSE /\ pc' = next
            /\ UNCHANGED <<events, exitCode>>
    /\ UNCHANGED <<parentName, fs, gitignore, fs0, gitignore0, argv, root, safe_branch,
                   pattern_type, base_path, full_worktree_path, markers>>
    /\ UNCHANGED restVars

setup_project_node ==
    /\ setup_project_step("setup_node", "setup_rust", "package.json", "npm install", ToolOutcomes)

setup_project_rust ==
    /\ setup_project_step("setup_rust", "setup_pip", "Cargo.toml", "cargo build", ToolOutcomes)

\* run through sys.executable, which exists
setup_project_pip ==
    /\ setup_project_step("setup_pip", "setup_pyproject", "requirements.txt", "pip install", GitOutcomes)

\* lines 141-149: poetry if shutil.which finds it, else uv, else nothing is run
setup_project_pyproject ==
    /\ pc = "setup_pyproject"
    /\ IF "pyproject.toml" \in markers
       THEN \E which \in {"poetry", "uv", "neither"} :
               IF which = "neither"
               THEN /\ events' = Append(events, Ev("print no package manager found", "-"))
                    /\ pc' = "setup_go"
                    /\ UNCHANGED exitCode
               ELSE \E r \in GitOutcomes :
                       LET cmd == IF which = "poetry" THEN "poetry install" ELSE "uv sync"
                       IN  IF r = "ok"
                           THEN /\ events' = Append(events, Ev(cmd, r))
                                /\ pc' = "setup_go"
                                /\ UNCHANGED exitCode
                           ELSE Uncaught(<<Ev(cmd, r)>>)
       ELSE /\ pc' = "setup_go"
            /\ UNCHANGED <<events, exitCode>>
    /\ UNCHANGED <<parentName, fs, gitignore, fs0, gitignore0, argv, root, safe_branch,
                   pattern_type, base_path, full_worktree_path, markers>>
    /\ UNCHANGED restVars

setup_project_go ==
    /\ setup_project_step("setup_go", AfterSetup, "go.mod", "go mod download", ToolOutcomes)

\* verify_baseline, lines 161-169: the one test command, by the first marker found
VerifyCommand(ms) ==
    IF "package.json" \in ms THEN "npm test"
    ELSE IF "Cargo.toml" \in ms THEN "cargo test"
    ELSE IF "pytest.ini" \in ms \/ "tests" \in ms THEN "pytest"
    ELSE IF "go.mod" \in ms THEN "go test"
    ELSE "None"

\* verify_baseline: CalledProcessError is caught and reported, and create goes on
verify_baseline ==
    /\ pc = "verify"
    /\ LET cmd == VerifyCommand(markers)
       IN  IF cmd = "None"
           THEN /\ events' = events \o <<Ev("print No test runner detected", "-"),
                                         Ev("verify_baseline returns", "True")>>
                /\ pc' = "success"
                /\ UNCHANGED exitCode
           ELSE \E r \in (IF cmd = "pytest" THEN GitOutcomes ELSE ToolOutcomes) :
                   CASE r = "ok" ->
                          /\ events' = events \o <<Ev(cmd, r),
                                                   Ev("print Baseline verification passed", "-"),
                                                   Ev("verify_baseline returns", "True")>>
                          /\ pc' = "success"
                          /\ UNCHANGED exitCode
                     [] r = "fail" ->
                          /\ events' = events \o <<Ev(cmd, r),
                                                   Ev("print Baseline verification FAILED", "-"),
                                                   Ev("verify_baseline returns", "False")>>
                          /\ pc' = "success"
                          /\ UNCHANGED exitCode
                     [] OTHER -> Uncaught(<<Ev(cmd, r)>>)
    /\ UNCHANGED <<parentName, fs, gitignore, fs0, gitignore0, argv, root, safe_branch,
                   pattern_type, base_path, full_worktree_path, markers>>
    /\ UNCHANGED restVars

\* lines 239-242, then main returns and the interpreter exits 0
create_worktree_success ==
    /\ pc = "success"
    /\ Exit(<<Ev("print SUCCESS", "-")>>, 0)
    /\ UNCHANGED <<parentName, fs, gitignore, fs0, gitignore0, argv, root, safe_branch,
                   pattern_type, base_path, full_worktree_path, markers>>
    /\ UNCHANGED restVars

\* list_worktrees: nothing catches a failure of git worktree list
list_worktrees ==
    /\ pc = "worktree_list"
    /\ \E r \in GitOutcomes :
        IF r = "ok"
        THEN Exit(<<Ev("git worktree list", r), Ev("print worktree list", "-")>>, 0)
        ELSE Uncaught(<<Ev("git worktree list", r)>>)
    /\ UNCHANGED <<parentName, fs, gitignore, fs0, gitignore0, argv, root, safe_branch,
                   pattern_type, base_path, full_worktree_path, markers>>
    /\ UNCHANGED restVars

\* remove_worktree: git deletes the worktree's directory when it succeeds
remove_worktree ==
    /\ pc = "worktree_remove"
    /\ LET target == PathJoin(root, argv.path)
       IN  \E r \in GitOutcomes :
            IF r = "ok"
            THEN /\ fs' = fs \ {target}
                 /\ Exit(<<Ev("git worktree remove", r), Ev("print Removed worktree", "-")>>, 0)
            ELSE /\ Exit(<<Ev("git worktree remove", r),
                           Ev("print Failed to remove worktree", "-")>>, 1)
                 /\ UNCHANGED fs
    /\ UNCHANGED <<parentName, gitignore, fs0, gitignore0, argv, root, safe_branch,
                   pattern_type, base_path, full_worktree_path, markers>>
    /\ UNCHANGED restVars

Next ==
    \/ main
    \/ get_git_toplevel
    \/ create_worktree
    \/ check_ignore
    \/ ensure_gitignore("worktree_add")
    \/ ensure_gitignore_add("worktree_add")
    \/ ensure_gitignore_commit("worktree_add")
    \/ create_worktree_add
    \/ setup_project_node
    \/ setup_project_rust
    \/ setup_project_pip
    \/ setup_project_pyproject
    \/ setup_project_go
    \/ verify_baseline
    \/ create_worktree_success
    \/ list_worktrees
    \/ remove_worktree

Spec == Init /\ [][Next]_vars

-----------------------------------------------------------------------------
(* Claims about the command line *)

GitCommands ==
    {"git rev-parse", "git check-ignore", "git add", "git commit", "git worktree add",
     "git worktree list", "git worktree remove"}
InstallCommands ==
    {"npm install", "cargo build", "pip install", "poetry install", "uv sync",
     "go mod download"}
TestCommands == {"npm test", "cargo test", "pytest", "go test"}

RanAnyOf(cmds) == \E i \in 1..Len(events) : events[i].e \in cmds

\* create without --location, in a repository that had no worktree directory and whose
\* parent is no container
FreshAutoCreate ==
    /\ argv.command = "create"
    /\ ~Truthy(argv.location)
    /\ root # Unset
    /\ PathJoin(root, DotWorktrees) \notin fs0
    /\ PathJoin(root, PlainWorktrees) \notin fs0
    /\ ~is_worktree_container(PathParent(root))

TargetIsDotWorktrees ==
    full_worktree_path # Unset =>
        full_worktree_path
            = PathJoin(PathJoin(root, DotWorktrees), sanitize_branch_name(argv.branch))

HadIgnoreText == gitignore0.exists /\ Contains(gitignore0.content, IgnorePattern(DotWorktrees))

\* C5 as stated: the target is <root>/.worktrees/<sanitised branch>; if .worktrees is not
\* git-ignored, '.worktrees/' is appended to the ignore file, and its commit attempted,
\* before git worktree add runs; git worktree add never runs before the ignore check.
C5_Claim ==
    FreshAutoCreate =>
        /\ TargetIsDotWorktrees
        /\ (Outcome("git check-ignore", "fail") /\ Ran("git worktree add")) =>
               /\ Before("append .gitignore", "git worktree add")
               /\ Before("git add", "git worktree add")
        /\ Ran("git worktree add") => Before("git check-ignore", "git worktree add")

\* C5 as amended: the same, with the append (and the git add that starts its commit) made
\* only if the ignore file does not already hold the text '.worktrees/'; if it does,
\* nothing is written and no commit is attempted.
C5_AppendBeforeAdd ==
    FreshAutoCreate =>
        /\ TargetIsDotWorktrees
        /\ (Outcome("git check-ignore", "fail") /\ Ran("git worktree add") /\ ~HadIgnoreText) =>
               /\ Before("append .gitignore", "git worktree add")
               /\ Before("git add", "git worktree add")
               /\ gitignore.content = gitignore0.content \o AppendedText(DotWorktrees)
        /\ (Outcome("git check-ignore", "fail") /\ Ran("git worktree add") /\ HadIgnoreText) =>
               /\ ~Ran("append .gitignore")
               /\ ~Ran("git add")
               /\ gitignore = gitignore0
        /\ Ran("git worktree add") => Before("git check-ignore", "git worktree add")

C5_Witness ==
    /\ FreshAutoCreate
    /\ Outcome("git check-ignore", "fail")
    /\ ~HadIgnoreText
    /\ Before("append .gitignore", "git worktree add")
    /\ Outcome("git commit", "fail")
    /\ full_worktree_path = PathJoin(PathJoin(root, DotWorktrees), <<"f", "-", "a">>)

\* C6: if git worktree add fails, create exits with status 1 and runs neither the
\* bootstrapper nor the verification and never prints SUCCESS; if it succeeds, create
\* exits with status 0.
C6_Claim ==
    /\ Outcome("git worktree add", "fail") =>
           /\ pc = "exited"
           /\ exitCode = 1
           /\ ~RanAnyOf(InstallCommands)
           /\ ~RanAnyOf(TestCommands)
           /\ ~Ran("print SUCCESS")
    /\ (pc = "exited" /\ Outcome("git worktree add", "ok")) => exitCode = 0

AuxiliaryCommands == {"git add", "git commit"} \cup InstallCommands \cup TestCommands

AuxiliaryFailed == \E c \in AuxiliaryCommands : Outcome(c, "fail")

\* C7: a failing auxiliary command (the .gitignore commit, an installer, the test command)
\* never ends the process: create goes on, prints SUCCESS and exits 0; only a failure of
\* the primary git operation ends it.
C7_Claim ==
    (argv.command = "create" /\ pc = "exited") =>
        /\ AuxiliaryFailed =>
               /\ Ran("git worktree add")
               /\ Outcome("git worktree add", "ok") => (exitCode = 0 /\ Ran("print SUCCESS"))
        /\ exitCode # 0 =>
               Outcome("git rev-parse", "fail") \/ Outcome("git worktree add", "fail")

\* C8 as stated: no arguments, or an unrecognised subcommand, prints the help and exits
\* with status 1 without running git.
C8_Claim ==
    (pc = "exited" /\ argv.command \in {"None", "bogus"}) =>
        /\ Ran("print help")
        /\ exitCode = 1
        /\ ~RanAnyOf(GitCommands)

\* C8 as amended: no arguments prints the help and exits with status 1; an unrecognised
\* subcommand is refused by the argument parser, which prints its usage error, not the
\* help, and exits with status 2; neither runs git.
C8_HelpOrUsageError ==
    /\ (pc = "exited" /\ argv.command = "None") =>
           /\ Ran("print help")
           /\ exitCode = 1
           /\ ~RanAnyOf(GitCommands)
    /\ (pc = "exited" /\ argv.command = "bogus") =>
           /\ Ran("print usage error")
           /\ ~Ran("print help")
           /\ exitCode = 2
           /\ ~RanAnyOf(GitCommands)

C8_Witness ==
    /\ pc = "exited"
    /\ argv.command = "bogus"
    /\ exitCode = 2
    /\ events = <<Ev("print usage error", "-")>>

\* the place of a marker's installer in setup_project (0: no installer)
InstallRank(cmd) ==
    CASE cmd = "npm install" -> 1
      [] cmd = "cargo build" -> 2
      [] cmd = "pip install" -> 3
      [] cmd \in {"poetry install", "uv sync"} -> 4
      [] cmd = "go mod download" -> 5
      [] OTHER -> 0

MarkerRank(m) ==
    CASE m = "package.json" -> 1
      [] m = "Cargo.toml" -> 2
      [] m = "requirements.txt" -> 3
      [] m = "pyproject.toml" -> 4
      [] m = "go.mod" -> 5
      [] OTHER -> 0

IsInstall(ev) == ev.e \in InstallCommands

\* the installers run so far, as their ranks, in the order they ran
InstallsRun == LET evs == SelectSeq(events, IsInstall)
               IN  [i \in 1..Len(evs) |-> InstallRank(evs[i].e)]

\* C10: once the bootstrapper is through, the installer of every marker present has run,
\* in the order package.json, Cargo.toml, requirements.txt, pyproject.toml, go.mod, and
\* no installer of an absent marker has run.
C10_Claim ==
    (argv.command = "create" /\ ~argv.skip_setup /\ Outcome("git worktree add", "ok")
        /\ pc \in {"verify", "success", "exited"}) =>
        /\ \A i, j \in 1..Len(InstallsRun) : i < j => InstallsRun[i] < InstallsRun[j]
        /\ {InstallsRun[i] : i \in 1..Len(InstallsRun)}
               = {MarkerRank(m) : m \in markers \cap SetupMarkers}

VerifyEntered == RanAnyOf(TestCommands) \/ Ran("print No test runner detected")

TestsRun == SelectSeq(events, LAMBDA ev : ev.e \in TestCommands)

\* C11: verify_baseline runs at most one test command, the one of the first marker present
\* in the order package.json, Cargo.toml, (pytest.ini or tests), go.mod; it returns True
\* when the command succeeds or there is no runner and False when it exits non-zero; and
\* it never ends the create flow: a create that entered verification ends with SUCCESS.
C11_Claim ==
    /\ Len(TestsRun) <= 1
    /\ \A i \in 1..Len(TestsRun) : TestsRun[i].e = VerifyCommand(markers)
    /\ Outcome("verify_baseline returns", "True")
           <=> (Ran("print No test runner detected") \/ \E c \in TestCommands : Outcome(c, "ok"))
    /\ Outcome("verify_baseline returns", "False") <=> \E c \in TestCommands : Outcome(c, "fail")
    /\ (VerifyEntered /\ pc = "exited") => (Ran("print SUCCESS") /\ exitCode = 0)

\* ---------------------------------------------------------------------------------
\* spawn_subagent.py: spawn_subagent
\* ---------------------------------------------------------------------------------

\* subprocess.run(..., timeout=600): the runtime bound of the subagent, in seconds
Timeout == 600

\* the pieces a captured stdout is made of: at most MaxPieces of them
MaxPieces == 3

StartMarker == <<"-", "-", "-", "S", "U", "B", "A", "G", "E", "N", "T", "-", "R", "E", "S",
                 "U", "L", "T", "-", "S", "T", "A", "R", "T", "-", "-", "-">>
EndMarker == <<"-", "-", "-", "S", "U", "B", "A", "G", "E", "N", "T", "-", "R", "E", "S",
               "U", "L", "T", "-", "E", "N", "D", "-", "-", "-">>

Whitespace == {" ", NL, "\t"}

\* the least i with s[i..] starting with t (0: t is not in s)
FirstAt(s, t) ==
    IF Contains(s, t)
    THEN CHOOSE i \in 1..(Len(s) + 1) :
             OccursAt(s, t, i) /\ \A j \in 1..(i - 1) : ~OccursAt(s, t, j)
    ELSE 0

\* Python's s.split(t, 1)
SplitOnce(s, t) ==
    LET i == FirstAt(s, t)
    IN  IF i = 0 THEN <<s>>
        ELSE <<SubSeq(s, 1, i - 1), SubSeq(s, i + Len(t), Len(s))>>

\* Python's s.strip()
RECURSIVE LStrip(_)
LStrip(s) == IF s # <<>> /\ Head(s) \in Whitespace THEN LStrip(Tail(s)) ELSE s
RECURSIVE RStrip(_)
RStrip(s) == IF s # <<>> /\ s[Len(s)] \in Whitespace THEN RStrip(SubSeq(s, 1, Len(s) - 1)) ELSE s
Strip(s) == RStrip(LStrip(s))

ExtractResult_NoStrip(stdout) ==
    IF Contains(stdout, StartMarker)
    THEN LET parts == SplitOnce(stdout, StartMarker)
             result_part == SplitOnce(parts[2], EndMarker)
         IN  result_part[1]
    ELSE stdout

\* lines 191-197
ExtractResult(stdout) ==
    IF Contains(stdout, StartMarker)
    THEN LET parts == SplitOnce(stdout, StartMarker)
             result_part == SplitOnce(parts[2], EndMarker)
         IN  Strip(result_part[1])
    ELSE stdout

\* what can be at a candidate path: nothing, an empty SKILL.md, one that cannot be read,
\* one with instructions
CandidateStates == {"absent", "empty", "unreadable", "text"}

load_skill_instructions(state) == IF state = "text" THEN <<"instructions">> ELSE <<>>

SkillInstructions_Default(files) == <<"instructions">>

\* lines 96-103: the instructions of the first candidate that exists
SkillInstructions(files) ==
    IF \E i \in 1..3 : files[i] # "absent"
    THEN LET first == CHOOSE i \in 1..3 :
                          files[i] # "absent" /\ \A j \in 1..(i - 1) : files[j] = "absent"
         IN  load_skill_instructions(files[first])
    ELSE <<>>

\* the error texts, as the pieces the f-strings are made of
SkillNotFoundError == <<"Skill '", "skill", "' ", "not found", ". Checked: ", "candidates">>
GeminiNotFoundError == <<"Gemini CLI ", "not found",
                         ". Please run 'npm install -g @google/gemini-cli' and ensure it is in your PATH.">>
TimedOutError_AsFailure(duration_s) == <<"Subagent ", "execution failed", ": ", ToString(duration_s)>>
TimedOutError(duration_s) == <<"Subagent ", "timed out", " after ", ToString(duration_s), "s">>
ExecutionFailedError(e) == <<"Subagent ", "execution failed", ": ", e>>

\* what the binary leaves on stdout and stderr, its exit codes, what run() may raise
\* a payload with whitespace around it
Payload == <<" ", "x", NL>>
StdoutPieces == {StartMarker, EndMarker, Payload, <<" ">>, <<"-">>}
RECURSIVE PieceTexts(_)
PieceTexts(n) ==
    IF n = 0 THEN {<<>>}
    ELSE LET shorter == PieceTexts(n - 1)
         IN  shorter \cup {t \o p : t \in shorter, p \in StdoutPieces}
Stdouts == PieceTexts(MaxPieces)
Stderrs == {<<>>, <<"b", "o", "o", "m">>}
ReturnCodes == {0, 1}
RunExceptions == {"[Errno 13] Permission denied: 'gemini'", "'utf-8' codec can't decode byte"}
\* time.time() - start_time when TimeoutExpired arrives, rounded by :.0f
Durations == {Timeout, Timeout + 1}

LogHeader == <<"=== SUBAGENT EXECUTION LOG ===", "=== PROMPT ===", "=== EXECUTION ===">>

\* the dict goes back to main, which returns 0 on success and 1 otherwise (lines 271-292)
Return(success, output, error) ==
    /\ spawn_result' = [success |-> success, output |-> output, error |-> error,
                        returned |-> TRUE]
    /\ exitCode' = IF success THEN 0 ELSE 1
    /\ pc' = "returned"

InitSpawn ==
    /\ parentName = <<"m", "y", "-", "p">>
    /\ fs = Tree(parentName, {})
    /\ fs0 = fs
    /\ root = RootIn(parentName)
    /\ pattern_type = "unset"
    /\ base_path = Unset
    /\ pc = "spawn_subagent"
    /\ Idle
    /\ invocations = <<>>
    /\ skill_files \in [1..3 -> CandidateStates]
    /\ gemini = NotRun
    /\ spawn_result = NoResult
    /\ log_file = NoFile
    /\ activation_log = NoFile
    /\ activation_log0 = NoFile
    /\ act_pc = [p \in Processes |-> "done"]
    /\ act_read = [p \in Processes |-> <<>>]

\* lines 79-114
spawn_subagent ==
    /\ pc = "spawn_subagent"
    /\ IF SkillInstructions(skill_files) = <<>>
       THEN /\ Return(FALSE, <<>>, SkillNotFoundError)
            /\ events' = events \o <<Ev("mkdir log_dir", "-")>>
       ELSE /\ pc' = "find_gemini_executable"
            /\ events' = events \o <<Ev("mkdir log_dir", "-")>>
            /\ UNCHANGED <<spawn_result, exitCode>>
    /\ UNCHANGED <<parentName, fs, gitignore, fs0, gitignore0, argv, root, safe_branch,
                   pattern_type, base_path, full_worktree_path, markers>>
    /\ UNCHANGED <<invocations, skill_files, gemini, log_file, activationVars>>

\* lines 140-149, with find_gemini_executable (lines 42-56)
find_gemini_executable ==
    /\ pc = "find_gemini_executable"
    /\ \E found \in BOOLEAN :
        IF found
        THEN /\ events' = events \o <<Ev("which gemini", "found")>>
             /\ pc' = "run"
             /\ UNCHANGED <<spawn_result, exitCode>>
        ELSE /\ events' = events \o <<Ev("which gemini", "None")>>
             /\ Return(FALSE, <<>>, GeminiNotFoundError)
    /\ UNCHANGED <<parentName, fs, gitignore, fs0, gitignore0, argv, root, safe_branch,
                   pattern_type, base_path, full_worktree_path, markers>>
    /\ UNCHANGED <<invocations, skill_files, gemini, log_file, activationVars>>

\* lines 151-227: the log is opened and headed, the binary is run once with the prompt on
\* stdin, and what run() does decides the dict
spawn_subagent_run ==
    /\ pc = "run"
    /\ \E outcome \in {"completed", "timeout", "raised"} :
        \* cmd is [gemini_exe], with --yolo unless main was given --no-yolo
        LET cmd == "run gemini"
        IN  /\ events' = events \o <<Ev("open log_file", "-"), Ev(cmd, outcome)>>
            /\ CASE outcome = "completed" ->
                      \E rc \in ReturnCodes, out \in Stdouts, err \in Stderrs :
                        /\ gemini' = [outcome |-> outcome, returncode |-> rc,
                                      stdout |-> out, stderr |-> err]
                        /\ log_file' = [exists |-> TRUE,
                                        content |-> LogHeader \o <<"=== STDOUT ===">> \o out
                                                       \o <<"=== STDERR ===">> \o err
                                                       \o <<"=== EXIT CODE ===", ToString(rc)>>]
                        /\ Return(rc = 0, ExtractResult(out), IF rc # 0 THEN err ELSE <<>>)
                 [] outcome = "timeout" ->
                      \E d \in Durations :
                        /\ gemini' = [NotRun EXCEPT !.outcome = outcome]
                        /\ log_file' = [exists |-> TRUE, content |-> LogHeader]
                        /\ Return(FALSE, <<>>, TimedOutError(d))
                 [] OTHER ->
                      \E e \in RunExceptions :
                        /\ gemini' = [NotRun EXCEPT !.outcome = outcome]
                        /\ log_file' = [exists |-> TRUE, content |-> LogHeader]
                        /\ Return(FALSE, <<>>, ExecutionFailedError(e))
    /\ UNCHANGED <<parentName, fs, gitignore, fs0, gitignore0, argv, root, safe_branch,
                   pattern_type, base_path, full_worktree_path, markers>>
    /\ UNCHANGED <<invocations, skill_files, activationVars>>

NextSpawn ==
    \/ spawn_subagent
    \/ find_gemini_executable
    \/ spawn_subagent_run

SpecSpawn == InitSpawn /\ [][NextSpawn]_vars

GeminiRuns == SelectSeq(events, LAMBDA ev : ev.e = "run gemini")

HasPiece(text, piece) == \E i \in 1..Len(text) : text[i] = piece

NoSkillFile == \A i \in 1..3 : skill_files[i] = "absent"

\* C12: with no SKILL.md at any of the three candidate paths, spawn_subagent returns
\* success False, empty output and an error containing 'not found'; the subagent binary is
\* neither looked up nor run, and no log file is written.
C12_UnknownSkill ==
    NoSkillFile =>
        /\ ~Ran("which gemini")
        /\ GeminiRuns = <<>>
        /\ ~log_file.exists
        /\ pc \in {"spawn_subagent", "returned"}
        /\ spawn_result.returned =>
               /\ spawn_result.success = FALSE
               /\ spawn_result.output = <<>>
               /\ HasPiece(spawn_result.error, "not found")

C12_Witness ==
    /\ NoSkillFile
    /\ pc = "returned"
    /\ spawn_result.returned
    /\ spawn_result.error = SkillNotFoundError
    /\ Ran("mkdir log_dir")

\* C13: when the binary exceeds the timeout, spawn_subagent returns success False, empty
\* output and an error that says the subagent timed out; that text is neither what a
\* non-zero exit returns (the binary's stderr) nor what any other exception returns, no
\* other outcome is reported as a timeout, and the binary was run exactly once.
C13_Timeout ==
    spawn_result.returned =>
        /\ gemini.outcome = "timeout" =>
               /\ pc = "returned"
               /\ spawn_result.success = FALSE
               /\ spawn_result.output = <<>>
               /\ HasPiece(spawn_result.error, "timed out")
               /\ spawn_result.error \notin Stderrs
               /\ spawn_result.error \notin {ExecutionFailedError(e) : e \in RunExceptions}
               /\ Len(GeminiRuns) = 1
        /\ gemini.outcome # "timeout" => ~HasPiece(spawn_result.error, "timed out")

C13_Witness ==
    /\ spawn_result.returned
    /\ gemini.outcome = "timeout"
    /\ spawn_result.error = TimedOutError(Timeout)
    /\ Len(GeminiRuns) = 1
    /\ log_file.exists

\* o is t without the whitespace at its two ends
IsStripOf(o, t) ==
    \E k, l \in 0..Len(t) :
        /\ k + l <= Len(t)
        /\ o = SubSeq(t, k + 1, Len(t) - l)
        /\ \A i \in 1..k : t[i] \in Whitespace
        /\ \A i \in (Len(t) - l + 1)..Len(t) : t[i] \in Whitespace
        /\ o # <<>> => (o[1] \notin Whitespace /\ o[Len(o)] \notin Whitespace)

StartsAt(out) == {i \in 1..Len(out) : OccursAt(out, StartMarker, i)}
Least(S) == CHOOSE i \in S : \A j \in S : i <= j
\* where the payload begins: right after the first START marker
PayloadFrom(out) == Least(StartsAt(out)) + Len(StartMarker)
EndsAfter(out) == {j \in PayloadFrom(out)..Len(out) : OccursAt(out, EndMarker, j)}

\* C14: when the binary completes, the output is the text between the first START marker
\* and the first END marker after it, stripped; with START and no END after it, all
\* that follows START, stripped; without START, stdout unchanged. success is True exactly
\* when the exit code is 0, and error is empty when success is True.
C14_Extraction ==
    (spawn_result.returned /\ gemini.outcome = "completed") =>
        LET out == gemini.stdout
        IN  /\ IF StartsAt(out) = {}
               THEN spawn_result.output = out
               ELSE IF EndsAfter(out) = {}
               THEN IsStripOf(spawn_result.output, SubSeq(out, PayloadFrom(out), Len(out)))
               ELSE IsStripOf(spawn_result.output,
                              SubSeq(out, PayloadFrom(out), Least(EndsAfter(out)) - 1))
            /\ spawn_result.success <=> gemini.returncode = 0
            /\ spawn_result.success => spawn_result.error = <<>>

C14_Witness ==
    /\ spawn_result.returned
    /\ gemini.outcome = "completed"
    /\ gemini.returncode = 0
    /\ gemini.stdout = StartMarker \o Payload \o EndMarker
    /\ spawn_result.output = <<"x">>
    /\ spawn_result.success

\* ---------------------------------------------------------------------------------
\* manage_worktree.py run again and again on one repository
\* ---------------------------------------------------------------------------------

\* how many successful creates are followed by another invocation
MaxInvocations == 3

SeqLocations == {None, DotWorktrees, PlainWorktrees}

\* create <a new branch> [--location l] --skip-setup --skip-verify
SeqArgvs ==
    { [NoArgv EXCEPT !.command = "create", !.branch = Repeat("a", Len(invocations) + 1),
                     !.location = l, !.skip_setup = TRUE, !.skip_verify = TRUE] :
        l \in SeqLocations }

InitSeq ==
    /\ parentName \in {<<"m", "y", "-", "p">>, <<"P", "-">> \o PlainWorktrees}
    /\ fs \in {Tree(parentName, nested) : nested \in SUBSET {DotWorktrees, PlainWorktrees}}
    /\ fs0 = fs
    /\ root = Unset
    /\ pattern_type = "unset"
    /\ base_path = Unset
    /\ pc = "start"
    /\ Idle
    /\ RestIdle

\* what a create that ended left behind
Invocation == [location |-> argv.location, branch |-> argv.branch, pattern |-> pattern_type,
               base |-> base_path, path |-> full_worktree_path]

\* the process has ended and the script is started again on the same repository
RunAgain ==
    /\ pc = "exited"
    /\ Len(invocations) < MaxInvocations
    /\ invocations' = IF argv.command = "create" /\ exitCode = 0
                      THEN Append(invocations, Invocation) ELSE invocations
    /\ pc' = "start"
    /\ argv' = NoArgv
    /\ root' = Unset
    /\ safe_branch' = Unset
    /\ pattern_type' = "unset"
    /\ base_path' = Unset
    /\ full_worktree_path' = Unset
    /\ markers' = {}
    /\ events' = <<>>
    /\ exitCode' = -1
    /\ fs0' = fs
    /\ gitignore0' = gitignore
    /\ UNCHANGED <<parentName, fs, gitignore, subagentVars, activationVars>>

\* main, given a create command line
main_create ==
    /\ ParseAndDispatch(SeqArgvs)

\* git worktree add into a worktree that holds no marker file
create_worktree_add_plain ==
    /\ create_worktree_add
    /\ markers' = {}

NextSeq ==
    \/ main_create
    \/ get_git_toplevel
    \/ create_worktree
    \/ check_ignore
    \/ ensure_gitignore("worktree_add")
    \/ ensure_gitignore_add("worktree_add")
    \/ ensure_gitignore_commit("worktree_add")
    \/ create_worktree_add_plain
    \/ create_worktree_success
    \/ RunAgain

SpecSeq == InitSeq /\ [][NextSeq]_vars

\* the successful creates so far, the one that just ended included
Created ==
    invocations \o (IF pc = "exited" /\ argv.command = "create" /\ exitCode = 0
                    THEN <<Invocation>> ELSE <<>>)

AutoLocated(i) == ~Truthy(Created[i].location)

\* C15: of the successful creates on one repository, any two made without --location with
\* no --location create between them detect the same (pattern, base) and put their
\* worktrees in the same directory.
C15_StableDetection ==
    \A i, j \in 1..Len(Created) :
        (/\ i < j
         /\ AutoLocated(i)
         /\ AutoLocated(j)
         /\ \A k \in (i + 1)..(j - 1) : AutoLocated(k)) =>
            /\ Created[i].pattern = Created[j].pattern
            /\ Created[i].base = Created[j].base
            /\ PathParent(Created[i].path) = PathParent(Created[j].path)

\* two creates without --location agree, then a create with --location makes .worktrees,
\* and the next create without --location detects another base
C15_Witness ==
    /\ Len(Created) = 4
    /\ AutoLocated(1) /\ AutoLocated(2) /\ ~AutoLocated(3) /\ AutoLocated(4)
    /\ Created[1].base = PlainWorktrees
    /\ Created[2].base = PlainWorktrees
    /\ Created[1].path # Created[2].path
    /\ Created[3].location = DotWorktrees
    /\ Created[4].base = DotWorktrees

\* ---------------------------------------------------------------------------------
\* record_activation.py: two invocations on one log
\* ---------------------------------------------------------------------------------

\* the lines the log may hold before the invocations
MaxLogLines == 2

\* f"{ts}\tskill={args.skill}\trun_id={args.run_id}\n" of each invocation
Line(p) == IF p = "p" THEN <<"p", NL>> ELSE <<"q", "q", NL>>

ActivationLogs ==
    {NoFile} \cup {[exists |-> TRUE, content |-> JoinLines(Repeat(<<"o">>, n))] : n \in 0..MaxLogLines}

\* a write of data at offset 0 of a file opened without O_APPEND
WriteAtStart(content, data) == data \o SubSeq(content, Len(data) + 1, Len(content))

InitActivation ==
    /\ parentName = <<"m", "y", "-", "p">>
    /\ fs = Tree(parentName, {})
    /\ fs0 = fs
    /\ root = RootIn(parentName)
    /\ pattern_type = "unset"
    /\ base_path = Unset
    /\ pc = "record_activation"
    /\ Idle
    /\ invocations = <<>>
    /\ skill_files = [i \in 1..3 |-> "absent"]
    /\ gemini = NotRun
    /\ spawn_result = NoResult
    /\ log_file = NoFile
    /\ activation_log \in ActivationLogs
    /\ activation_log0 = activation_log
    /\ act_pc = [p \in Processes |-> "main"]
    /\ act_read = [p \in Processes |-> <<>>]

\* lines 17-27: the arguments, the directory, the line
record_activation_main(p) ==
    /\ act_pc[p] = "main"
    /\ act_pc' = [act_pc EXCEPT ![p] = "exists"]
    /\ UNCHANGED <<activation_log, activation_log0, act_read>>
    /\ UNCHANGED <<worktreeVars, invocations, subagentVars>>

\* line 28: log_path.exists()
record_activation_exists(p) ==
    /\ act_pc[p] = "exists"
    /\ act_pc' = [act_pc EXCEPT ![p] = IF activation_log.exists THEN "read_text" ELSE "open"]
    /\ UNCHANGED <<activation_log, activation_log0, act_read>>
    /\ UNCHANGED <<worktreeVars, invocations, subagentVars>>

\* line 28: log_path.read_text()
record_activation_read_text(p) ==
    /\ act_pc[p] = "read_text"
    /\ act_read' = [act_read EXCEPT ![p] = activation_log.content]
    /\ act_pc' = [act_pc EXCEPT ![p] = "open"]
    /\ UNCHANGED <<activation_log, activation_log0>>
    /\ UNCHANGED <<worktreeVars, invocations, subagentVars>>

\* line 28: write_text opens the file for writing, which creates or empties it
record_activation_open(p) ==
    /\ act_pc[p] = "open"
    /\ activation_log' = [exists |-> TRUE, content |-> <<>>]
    /\ act_pc' = [act_pc EXCEPT ![p] = "write"]
    /\ UNCHANGED <<activation_log0, act_read>>
    /\ UNCHANGED <<worktreeVars, invocations, subagentVars>>

\* line 28: write_text writes what was read plus the line, and closes; main returns 0
record_activation_write(p) ==
    /\ act_pc[p] = "write"
    /\ activation_log' = [exists |-> TRUE,
                          content |-> WriteAtStart(activation_log.content, act_read[p] \o Line(p))]
    /\ act_pc' = [act_pc EXCEPT ![p] = "done"]
    /\ UNCHANGED <<activation_log0, act_read>>
    /\ UNCHANGED <<worktreeVars, invocations, subagentVars>>

NextActivation ==
    \E p \in Processes :
        \/ record_activation_main(p)
        \/ record_activation_exists(p)
        \/ record_activation_read_text(p)
        \/ record_activation_open(p)
        \/ record_activation_write(p)

SpecActivation == InitActivation /\ [][NextActivation]_vars

AllDone == \A p \in Processes : act_pc[p] = "done"

\* C16: when both invocations are through, the log is what it held before them followed
\* by the line of each, in either order.
C16_Claim ==
    AllDone =>
        \E p, q \in Processes :
            /\ p # q
            /\ activation_log.content = activation_log0.content \o Line(p) \o Line(q)

\* ---------------------------------------------------------------------------------
\* create_worktree: the target paths of two branch names in one layout
\* ---------------------------------------------------------------------------------

\* the longest branch name tried
MaxTargetLen == 2

TargetAlphabet == BranchAlphabet \cup {"."}
TargetBranches == UNION {[1..n -> TargetAlphabet] : n \in 0..MaxTargetLen}

\* create_worktree entered with root found: container parent or not, --location or not
InitTarget ==
    /\ parentName \in {<<"m", "y", "-", "p">>, <<"P", "-">> \o PlainWorktrees}
    /\ fs \in {Tree(parentName, nested) : nested \in {{}, {PlainWorktrees}}}
    /\ fs0 = fs
    /\ root = RootIn(parentName)
    /\ pattern_type = "unset"
    /\ base_path = Unset
    /\ pc = "resolve"
    /\ gitignore = NoFile
    /\ gitignore0 = NoFile
    /\ \E b \in TargetBranches, l \in {None, <<"w", "t">>} :
           argv = [NoArgv EXCEPT !.command = "create", !.branch = b, !.location = l]
    /\ safe_branch = Unset
    /\ full_worktree_path = Unset
    /\ markers = {}
    /\ events = <<>>
    /\ exitCode = -1
    /\ RestIdle

\* create is asked for another branch name, same repository, same --location
create_other_branch ==
    /\ pc \in {"check_ignore", "worktree_add"}
    /\ invocations = <<>>
    /\ invocations' = <<Invocation>>
    /\ \E b \in TargetBranches \ {argv.branch} : argv' = [argv EXCEPT !.branch = b]
    /\ pc' = "resolve"
    /\ safe_branch' = Unset
    /\ pattern_type' = "unset"
    /\ base_path' = Unset
    /\ full_worktree_path' = Unset
    /\ events' = <<>>
    /\ UNCHANGED <<parentName, fs, gitignore, fs0, gitignore0, root, markers, exitCode>>
    /\ UNCHANGED <<subagentVars, activationVars>>

NextTarget ==
    \/ create_worktree
    \/ create_other_branch

SpecTarget == InitTarget /\ [][NextTarget]_vars

\* both branch names have their target path
BothResolved == Len(invocations) = 1 /\ pc \in {"check_ignore", "worktree_add"}

\* the two names are alike but for which of '/', '\' and '-' stands at a place
SameUpToSeparators(b, c) ==
    /\ Len(b) = Len(c)
    /\ \A i \in 1..Len(b) : b[i] = c[i] \/ {b[i], c[i]} \subseteq {Slash, Backslash, "-"}

\* a name that adds no component to the base: '' and '.'
NoComponent(b) == b \in {<<>>, <<".">>}

\* C17: two distinct branch names never resolve to the same target directory.
C17_Claim ==
    BothResolved => invocations[1].path # full_worktree_path

\* C17 (amended): two distinct branch names resolve to the same target directory exactly
\* when they are alike up to '/', '\' and '-', or when both are '' or '.'.
C17_CollideOnSeparators ==
    BothResolved =>
        (invocations[1].path = full_worktree_path
            <=> \/ SameUpToSeparators(invocations[1].branch, argv.branch)
                \/ NoComponent(invocations[1].branch) /\ NoComponent(argv.branch))

C17_Witness ==
    /\ BothResolved
    /\ invocations[1].branch = <<Slash, "a">>
    /\ argv.branch = <<"-", "a">>
    /\ invocations[1].path = full_worktree_path
    /\ safe_branch = <<"-", "a">>

====
